---- MODULE Spec2Model ----
(***************************************************************************)
(* Model of the customer-support backend in src/main.py: the two MongoDB  *)
(* collections the module touches, the HTTP endpoints, and the three      *)
(* tools the support agent may call while a /support request is running.  *)
(*                                                                         *)
(* Strings that the code parses (identifiers) are sequences of one-        *)
(* character strings; free text (issue summaries, log entries) is a        *)
(* sequence of tokens, so that overwriting and appending differ.           *)
(* A datetime is <<ms, us>>: whole milliseconds and the sub-millisecond    *)
(* remainder (0 = none), because BSON stores milliseconds only.            *)
(* The store is taken to answer every operation (startup_db pings it);     *)
(* driver faults are not part of the model.                                *)
(***************************************************************************)
EXTENDS Integers, Sequences, FiniteSets, TLC

\* ------------------------------------------------------------------ bounds
MaxCreate    == 1   \* customers inserted through POST /customers/create
MaxTime      == 1   \* last millisecond the clock reaches

\* --------------------------------------------------------------- constants
ObjectIdLen   == 24
UsageLimit    == 70
PlanListLimit == 10

EntryPlan == "Basic Hosting"
OtherPlan == "Pro Hosting"

\* /support requests that may be in flight at the same time
Req == {"r1", "r2"}

\* ------------------------------------------------------------- identifiers
LowerHex == <<"0","1","2","3","4","5","6","7","8","9","a","b","c","d","e","f">>
UpperHex == <<"0","1","2","3","4","5","6","7","8","9","A","B","C","D","E","F">>

IsHexChar(c) == \E i \in 1..16 : LowerHex[i] = c \/ UpperHex[i] = c

HexValue(c) == CHOOSE i \in 1..16 : LowerHex[i] = c \/ UpperHex[i] = c

\* bson accepts a str of 24 hexadecimal characters, in either case
IsValidObjectId(v) == Len(v) = ObjectIdLen /\ \A i \in 1..Len(v) : IsHexChar(v[i])

\* bson.ObjectId(v): the 12 bytes, written as their lower-case hex form (what
\* str(oid) prints); raises InvalidId unless IsValidObjectId(v)
ObjectId(v) == [i \in 1..ObjectIdLen |-> LowerHex[HexValue(v[i])]]

\* the k-th identifier of the model; its last character is a letter
Hex24(k) == [i \in 1..ObjectIdLen |-> IF i = ObjectIdLen THEN LowerHex[10 + k] ELSE "0"]

\* the same identifier typed in upper case
Upper24(k) == [i \in 1..ObjectIdLen |-> IF i = ObjectIdLen THEN UpperHex[10 + k] ELSE "0"]

\* documents that are in db['customers_collection'] when the process starts
SeedIds == {Hex24(1), Hex24(2)}

\* the _id insert_one generates for the n-th inserted document
NewId(n) == Hex24(Cardinality(SeedIds) + n)

\* malformed identifiers: too short, and of the right length but not hex
TooShort == <<"x","y","z">>
NotHex   == [i \in 1..ObjectIdLen |-> IF i = 1 THEN "g" ELSE "0"]

\* customer_id strings a client posts to /support
SupportIds == {Upper24(1), TooShort} \cup {NewId(n) : n \in 1..MaxCreate}

\* customer_id strings a client puts in the path of /test_lookup
LookupIds == {NotHex} \cup {NewId(n) : n \in 1..MaxCreate}

\* ---------------------------------------------------------------- datetimes
Before(a, b) == a[1] < b[1] \/ (a[1] = b[1] /\ a[2] < b[2])

\* bson encodes a datetime as whole milliseconds since the epoch
BsonDate(d) == <<d[1], 0>>

\* -------------------------------------------------------------------- text
Issues == {"site down", "billing"}
NoLog  == <<>>

\* -------------------------------------------------------------------- state
VARIABLES
  customers,             \* db['customers']: _id -> document
  customers_collection,  \* db['customers_collection']: _id -> document
  plans_collection,      \* db['plans_collection']: sequence of documents
  now,                   \* the value datetime.now() returns
  pc,                    \* per /support request: "idle", "agent", "esc_update", "failed"
  deps,                  \* per request: SupportDependencies.customer_id
  esc,                   \* per request: locals of a suspended escalate_to_l2
  last,                  \* what the step just taken returned, raised or
                         \* responded; NoEvent after a step that did neither
  lastWrite,             \* per _id: issue_summary of the last update_one on it
  seed                   \* db['customers_collection'] as the process found it

vars == <<customers, customers_collection, plans_collection, now, pc, deps, esc,
          last, lastWrite, seed>>

EmptyColl == [i \in {} |-> NoLog]

NoDeps == <<>>
NoEsc  == <<>>
NoEvent == [kind |-> "none"]

\* a document of a customers collection
Doc(n, p, d, u, l) ==
  [name |-> n, subscribed_plan |-> p, renewal_date |-> d, average_usage |-> u,
   escalation_log |-> l]

SeedDocs == {Doc("seed", p, <<MaxTime, 0>>, u, NoLog) :
               p \in {EntryPlan, OtherPlan}, u \in {UsageLimit, UsageLimit + 1}}

OtherDoc == Doc("other", OtherPlan, <<0, 0>>, 0, NoLog)

SeedPlans == << [name |-> EntryPlan, description |-> "entry level", cost |-> 5],
                [name |-> OtherPlan, description |-> "advanced", cost |-> 20] >>

\* CustomerCreate bodies a client posts
Payloads == {[name |-> "new", subscribed_plan |-> EntryPlan, renewal_date |-> <<0, 1>>,
              average_usage |-> u] : u \in {-1, UsageLimit + 1}}

Init ==
  /\ customers = EmptyColl
  /\ \/ customers_collection = EmptyColl
     \/ \E d \in SeedDocs :
          customers_collection = [i \in SeedIds |-> IF i = Hex24(1) THEN d ELSE OtherDoc]
  /\ plans_collection = SeedPlans
  /\ now = <<0, 0>>
  /\ pc = [r \in Req |-> "idle"]
  /\ deps = [r \in Req |-> NoDeps]
  /\ esc = [r \in Req |-> NoEsc]
  /\ last = NoEvent
  /\ lastWrite = EmptyColl
  /\ seed = customers_collection

\* ------------------------------------------------------------ store access
\* collection.find_one({"_id": id}): <<>> for None, else <<document>>
find_one(coll, id) == IF id \in DOMAIN coll THEN <<coll[id]>> ELSE <<>>

\* a $push in place of the $set: the log grows instead of being replaced
update_one_Append(coll, id, s) ==
  [i \in DOMAIN coll |->
     IF i = id THEN [coll[i] EXCEPT !.escalation_log = Append(@, s)] ELSE coll[i]]

\* an update_many with a filter that matches every document
update_one_Many(coll, id, s) ==
  [i \in DOMAIN coll |-> [coll[i] EXCEPT !.escalation_log = <<s>>]]

\* collection.update_one({"_id": id}, {"$set": {"escalation_log": s}})
update_one(coll, id, s) ==
  [i \in DOMAIN coll |->
     IF i = id THEN [coll[i] EXCEPT !.escalation_log = <<s>>] ELSE coll[i]]

\* collection.insert_one(doc) with the generated _id
insert_one(coll, id, doc) ==
  [i \in DOMAIN coll \cup {id} |-> IF i = id THEN doc ELSE coll[i]]

\* ------------------------------------------------------------ customer_plan
NotFoundResult ==
  [support_advice |-> "I was unable to find your account. Please check your customer ID and try again.",
   block_card |-> FALSE, risk |-> 0, escalation_summary |-> ""]

UpgradeResult ==
  [support_advice |-> "Your plan is active, but you are exceeding your average usage. Consider upgrading your plan.",
   block_card |-> FALSE, risk |-> 5, escalation_summary |-> ""]

PastDueResult ==
  [support_advice |-> "Your renewal date has passed. Please renew your plan to avoid service interruption.",
   block_card |-> FALSE, risk |-> 9,
   escalation_summary |-> "Customer's renewal date is past due."]

ActiveResult ==
  [support_advice |-> "Your plan is active. If you have any issues, please contact support.",
   block_card |-> FALSE, risk |-> 0, escalation_summary |-> ""]

\* the two tests in the other order
PlanDecision_PastDueFirst(customer, t) ==
  IF Before(customer.renewal_date, t)
    THEN PastDueResult
  ELSE IF customer.subscribed_plan = EntryPlan /\ customer.average_usage > UsageLimit
    THEN UpgradeResult
  ELSE ActiveResult

\* the renewal date compared at whole milliseconds only
PlanDecision_WholeMs(customer, t) ==
  IF customer.subscribed_plan = EntryPlan /\ customer.average_usage > UsageLimit
    THEN UpgradeResult
  ELSE IF customer.renewal_date[1] < t[1]
    THEN PastDueResult
  ELSE ActiveResult

\* >= in place of > in the usage test
PlanDecision_AtLeast(customer, t) ==
  IF customer.subscribed_plan = EntryPlan /\ customer.average_usage >= UsageLimit
    THEN UpgradeResult
  ELSE IF Before(customer.renewal_date, t)
    THEN PastDueResult
  ELSE ActiveResult

\* the if / elif / else over the document that find_one returned
PlanDecision(customer, t) ==
  IF customer.subscribed_plan = EntryPlan /\ customer.average_usage > UsageLimit
    THEN UpgradeResult
  ELSE IF Before(customer.renewal_date, t)
    THEN PastDueResult
  ELSE ActiveResult

\* a missing customer reported through the error dict of the except clause
customer_plan_value_NoneIsError(v, coll, t) ==
  IF ~IsValidObjectId(v)
    THEN [error |-> "Invalid ObjectId format"]
  ELSE IF find_one(coll, ObjectId(v)) = <<>>
    THEN [error |-> "Database query error"]
  ELSE PlanDecision(find_one(coll, ObjectId(v))[1], t)

\* what customer_plan returns for ctx.deps.customer_id = v at time t
customer_plan_value(v, coll, t) ==
  IF ~IsValidObjectId(v)
    THEN [error |-> "Invalid ObjectId format"]
  ELSE IF find_one(coll, ObjectId(v)) = <<>>
    THEN NotFoundResult
  ELSE PlanDecision(find_one(coll, ObjectId(v))[1], t)

\* the tool reads ctx.deps.db.customers_collection
customer_plan(r) ==
  /\ pc[r] = "agent"
  /\ last' = [kind |-> "tool", tool |-> "customer_plan", outcome |-> "return",
              id |-> deps[r],
              value |-> customer_plan_value(deps[r], customers_collection, now)]
  /\ UNCHANGED <<customers, customers_collection, plans_collection, now, pc, deps,
                 esc, lastWrite, seed>>

\* ----------------------------------------------------- list_available_plans
to_list(docs, length) ==
  SubSeq(docs, 1, IF Len(docs) < length THEN Len(docs) ELSE length)

list_available_plans(r) ==
  /\ pc[r] = "agent"
  /\ last' = [kind |-> "tool", tool |-> "list_available_plans", outcome |-> "return",
              id |-> deps[r],
              value |-> [i \in 1..Len(to_list(plans_collection, PlanListLimit)) |->
                           [name |-> plans_collection[i].name,
                            description |-> plans_collection[i].description,
                            cost |-> plans_collection[i].cost]]]
  /\ UNCHANGED <<customers, customers_collection, plans_collection, now, pc, deps,
                 esc, lastWrite, seed>>

\* ----------------------------------------------------------- escalate_to_l2
\* the f-string the tool returns: customer name, plan and issue
EscalationSummary(name, plan, issue_summary) ==
  [Customer |-> name, Plan |-> plan, Issue |-> issue_summary]

\* first await: ObjectId(ctx.deps.customer_id), then find_one. An InvalidId
\* leaves the tool and agent.run.
escalate_to_l2(r, issue_summary) ==
  /\ pc[r] = "agent"
  /\ IF ~IsValidObjectId(deps[r])
       THEN /\ last' = [kind |-> "tool", tool |-> "escalate_to_l2",
                        outcome |-> "raise", id |-> deps[r], value |-> "InvalidId"]
            /\ pc' = [pc EXCEPT ![r] = "failed"]
            /\ esc' = esc
       ELSE IF find_one(customers_collection, ObjectId(deps[r])) = <<>>
         THEN /\ last' = [kind |-> "tool", tool |-> "escalate_to_l2",
                          outcome |-> "return", id |-> deps[r],
                          value |-> "Escalation failed: Customer not found."]
              /\ UNCHANGED <<pc, esc>>
         ELSE LET customer == find_one(customers_collection, ObjectId(deps[r]))[1]
              IN /\ esc' = [esc EXCEPT ![r] =
                              [issue_summary |-> issue_summary,
                               customer |-> customer]]
                 /\ pc' = [pc EXCEPT ![r] = "esc_update"]
                 /\ last' = NoEvent
  /\ UNCHANGED <<customers, customers_collection, plans_collection, now, deps,
                 lastWrite, seed>>

\* second await: update_one, then the summary is returned to the agent
escalate_update(r) ==
  /\ pc[r] = "esc_update"
  /\ customers_collection' =
       update_one(customers_collection, ObjectId(deps[r]), esc[r].issue_summary)
  /\ lastWrite' = insert_one(lastWrite, ObjectId(deps[r]), esc[r].issue_summary)
  /\ last' = [kind |-> "tool", tool |-> "escalate_to_l2", outcome |-> "return",
              id |-> deps[r],
              issue_summary |-> esc[r].issue_summary,
              repeated |-> (customers_collection[ObjectId(deps[r])].escalation_log
                              = <<esc[r].issue_summary>>),
              raced |-> (customers_collection[ObjectId(deps[r])].escalation_log
                           # esc[r].customer.escalation_log),
              value |-> EscalationSummary(esc[r].customer.name,
                                          esc[r].customer.subscribed_plan,
                                          esc[r].issue_summary)]
  /\ pc' = [pc EXCEPT ![r] = "agent"]
  /\ esc' = [esc EXCEPT ![r] = NoEsc]
  /\ UNCHANGED <<customers, plans_collection, now, deps, seed>>

\* ------------------------------------------------------------ POST /support
\* FastAPI builds SupportQuery by field validation; the parse_obj override is
\* not on that path, so any str is accepted as customer_id
support_query(r, customer_id) ==
  /\ pc[r] = "idle"
  /\ pc' = [pc EXCEPT ![r] = "agent"]
  /\ deps' = [deps EXCEPT ![r] = customer_id]
  /\ last' = NoEvent
  /\ UNCHANGED <<customers, customers_collection, plans_collection, now, esc,
                 lastWrite, seed>>

SupportResponse(customer_id, status, body) ==
  [kind |-> "http", endpoint |-> "/support", customer_id |-> customer_id,
   status |-> status, body |-> body]

AgentOutcomes == {"SupportResult", "unexpected", "exception"}

\* agent.run comes back: a SupportResult, something else, or an exception
agent_return(r, outcome) ==
  /\ pc[r] = "agent"
  /\ last' = IF outcome = "SupportResult"
               THEN SupportResponse(deps[r], 200, "SupportResult")
               ELSE SupportResponse(deps[r], 500, "Error processing support query")
  /\ pc' = [pc EXCEPT ![r] = "idle"]
  /\ deps' = [deps EXCEPT ![r] = NoDeps]
  /\ UNCHANGED <<customers, customers_collection, plans_collection, now, esc,
                 lastWrite, seed>>

\* the except clause of support_query, reached by an exception out of a tool
support_query_except(r) ==
  /\ pc[r] = "failed"
  /\ last' = SupportResponse(deps[r], 500, "Error processing support query")
  /\ pc' = [pc EXCEPT ![r] = "idle"]
  /\ deps' = [deps EXCEPT ![r] = NoDeps]
  /\ UNCHANGED <<customers, customers_collection, plans_collection, now, esc,
                 lastWrite, seed>>

\* ---------------------------------------------------- POST /customers/create
\* response_model=CustomerCreate keeps the model's four fields of the document
CustomerCreateFields(doc) ==
  [name |-> doc.name, subscribed_plan |-> doc.subscribed_plan,
   renewal_date |-> doc.renewal_date, average_usage |-> doc.average_usage]

create_customer(customer) ==
  /\ customer.average_usage >= 0 => Cardinality(DOMAIN customers) < MaxCreate
  /\ IF customer.average_usage < 0
       THEN /\ last' = [kind |-> "http", endpoint |-> "/customers/create",
                        request |-> customer, status |-> 422,
                        body |-> "validation error"]
            /\ customers' = customers
       ELSE LET inserted_id == NewId(Cardinality(DOMAIN customers) + 1)
                new_customer == Doc(customer.name, customer.subscribed_plan,
                                    BsonDate(customer.renewal_date),
                                    customer.average_usage, NoLog)
                stored == insert_one(customers, inserted_id, new_customer)
            IN /\ customers' = stored
               /\ last' = [kind |-> "http", endpoint |-> "/customers/create",
                           request |-> customer, inserted_id |-> inserted_id,
                           status |-> 200,
                           body |-> CustomerCreateFields(
                                      find_one(stored, inserted_id)[1])]
  /\ UNCHANGED <<customers_collection, plans_collection, now, pc, deps, esc,
                 lastWrite, seed>>

\* ------------------------------------------------ GET /test_lookup/{customer_id}
LookupResponse(customer_id, status, body) ==
  [kind |-> "http", endpoint |-> "/test_lookup", customer_id |-> customer_id,
   status |-> status, body |-> body]

\* A found document carries an ObjectId, which the JSON encoder of the
\* response rejects after the handler has returned: outside its try block.
test_lookup(customer_id) ==
  /\ last' =
       IF ~IsValidObjectId(customer_id)
         THEN LookupResponse(customer_id, 200, [error |-> "InvalidId"])
       ELSE IF find_one(customers, ObjectId(customer_id)) = <<>>
         THEN LookupResponse(customer_id, 200, "null")
       ELSE LookupResponse(customer_id, 500, "Internal Server Error")
  /\ UNCHANGED <<customers, customers_collection, plans_collection, now, pc, deps,
                 esc, lastWrite, seed>>

\* ------------------------------------------------------------------- clock
Tick ==
  /\ Before(now, <<MaxTime, 1>>)
  /\ now' = IF now[2] = 0 THEN <<now[1], 1>> ELSE <<now[1] + 1, 0>>
  /\ last' = NoEvent
  /\ UNCHANGED <<customers, customers_collection, plans_collection, pc, deps, esc,
                 lastWrite, seed>>

Next ==
  \/ \E r \in Req, v \in SupportIds : support_query(r, v)
  \/ \E r \in Req : customer_plan(r)
  \/ \E r \in Req : list_available_plans(r)
  \/ \E r \in Req, s \in Issues : escalate_to_l2(r, s)
  \/ \E r \in Req : escalate_update(r)
  \/ \E r \in Req, o \in AgentOutcomes : agent_return(r, o)
  \/ \E r \in Req : support_query_except(r)
  \/ \E c \in Payloads : create_customer(c)
  \/ \E v \in LookupIds : test_lookup(v)
  \/ Tick

Spec == Init /\ [][Next]_vars

\* ================================================================== claims
\* The tool that produced `last`, and the document its lookup read. A tool
\* step leaves both collections and the clock as they were, so in the state
\* right after it the store and `now` are the ones the tool saw.
PlanReturned == last.kind = "tool" /\ last.tool = "customer_plan"

EscalateReturned ==
  last.kind = "tool" /\ last.tool = "escalate_to_l2" /\ last.outcome = "return"

Escalated == EscalateReturned /\ "issue_summary" \in DOMAIN last

ReadCustomer ==
  IF IsValidObjectId(last.id) THEN find_one(customers_collection, ObjectId(last.id))
  ELSE <<>>

UsageRule(c) == c.subscribed_plan = "Basic Hosting" /\ c.average_usage > 70

Earlier(a, b) == a[1] < b[1] \/ (a[1] = b[1] /\ a[2] < b[2])

\* C1: for a stored customer on the entry-level plan with average_usage > 70,
\* customer_plan returns risk 5, block_card false and an empty
\* escalation_summary, whatever the renewal_date.
C1_UsageRuleWins ==
  (PlanReturned /\ ReadCustomer # <<>> /\ UsageRule(ReadCustomer[1]))
    => /\ last.outcome = "return"
       /\ last.value.risk = 5
       /\ last.value.block_card = FALSE
       /\ last.value.escalation_summary = ""

\* C1 witness: the usage rule decided for a customer whose renewal is past due
C1_Witness ==
  /\ PlanReturned /\ ReadCustomer # <<>> /\ UsageRule(ReadCustomer[1])
  /\ Earlier(ReadCustomer[1].renewal_date, now)
  /\ last.value.risk = 5

\* C2: for a stored customer whose renewal_date is strictly before now and
\* who does not match the usage rule, customer_plan returns risk 9,
\* block_card false and a non-empty escalation_summary.
C2_PastDue ==
  (PlanReturned /\ ReadCustomer # <<>> /\ ~UsageRule(ReadCustomer[1])
     /\ Earlier(ReadCustomer[1].renewal_date, now))
    => /\ last.outcome = "return"
       /\ last.value.risk = 9
       /\ last.value.block_card = FALSE
       /\ last.value.escalation_summary # ""

\* C2 witness: a past-due customer, entry-level with usage exactly 70
C2_Witness ==
  /\ PlanReturned /\ ReadCustomer # <<>>
  /\ ReadCustomer[1].subscribed_plan = "Basic Hosting"
  /\ ReadCustomer[1].average_usage = 70
  /\ Earlier(ReadCustomer[1].renewal_date, now)
  /\ last.value.risk = 9

\* C3: for a stored customer matching neither rule (renewal_date equal to now
\* and average_usage exactly 70 included), customer_plan returns risk 0,
\* block_card false and an empty escalation_summary.
C3_Healthy ==
  (PlanReturned /\ ReadCustomer # <<>> /\ ~UsageRule(ReadCustomer[1])
     /\ ~Earlier(ReadCustomer[1].renewal_date, now))
    => /\ last.outcome = "return"
       /\ last.value.risk = 0
       /\ last.value.block_card = FALSE
       /\ last.value.escalation_summary = ""

\* C3 witness: both boundaries at once, usage 70 and renewal_date = now
C3_Witness ==
  /\ PlanReturned /\ ReadCustomer # <<>>
  /\ ReadCustomer[1].subscribed_plan = "Basic Hosting"
  /\ ReadCustomer[1].average_usage = 70
  /\ ReadCustomer[1].renewal_date = now
  /\ last.value.risk = 0

\* C4: when the lookup finds no record for the identifier, customer_plan
\* returns the fixed "account not found" result (risk 0, block_card false,
\* empty escalation_summary) as a value, and the step changes no collection.
C4_NotFound ==
  [][ (last'.kind = "tool" /\ last'.tool = "customer_plan"
         /\ IsValidObjectId(last'.id)
         /\ ObjectId(last'.id) \notin DOMAIN customers_collection)
        => /\ last'.outcome = "return"
           /\ last'.value = NotFoundResult
           /\ last'.value.risk = 0
           /\ last'.value.block_card = FALSE
           /\ last'.value.escalation_summary = ""
           /\ customers_collection' = customers_collection
           /\ customers' = customers
           /\ plans_collection' = plans_collection ]_vars

\* C4 witness: the not-found result, returned while the store holds other customers
C4_Witness ==
  /\ PlanReturned /\ IsValidObjectId(last.id) /\ ReadCustomer = <<>>
  /\ customers_collection # EmptyColl
  /\ last.value.risk = 0
  /\ last.value.support_advice = NotFoundResult.support_advice

\* C5: a request to /support or to the lookup endpoint with a malformed
\* customer_id ends in a 4xx.
C5_MalformedIs4xx ==
  (last.kind = "http" /\ last.endpoint \in {"/support", "/test_lookup"}
     /\ ~IsValidObjectId(last.customer_id))
    => last.status \in 400..499

\* C6: escalate_to_l2 overwrites: right after a call for an existing customer
\* the stored escalation_log is that call's issue_summary and nothing else,
\* also when the same call is repeated.
C6_Overwrite ==
  Escalated
    => customers_collection[ObjectId(last.id)].escalation_log = <<last.issue_summary>>

\* C6 witness: an identical call repeated; the log is still that one summary
C6_Witness ==
  /\ Escalated /\ last.repeated
  /\ customers_collection[ObjectId(last.id)].escalation_log = <<last.issue_summary>>

\* C7: the create response carries the generated identifier, and a lookup by
\* it returns the submitted name, plan, renewal_date and average_usage.
C7_RoundTrip ==
  /\ (last.kind = "http" /\ last.endpoint = "/customers/create" /\ last.status = 200)
       => /\ "_id" \in DOMAIN last.body
          /\ CustomerCreateFields(customers[last.inserted_id]) = last.request
  /\ (last.kind = "http" /\ last.endpoint = "/test_lookup"
        /\ IsValidObjectId(last.customer_id)
        /\ ObjectId(last.customer_id) \in DOMAIN customers)
       => /\ last.status = 200
          /\ last.body = CustomerCreateFields(customers[ObjectId(last.customer_id)])

\* C8: a tool run with a missing or malformed identifier returns a value; it
\* never raises.
C8_ToolsNeverRaise ==
  (last.kind = "tool" /\ ReadCustomer = <<>>) => last.outcome = "return"

\* C9: a customer inserted by create_customer is the record customer_plan
\* reads and escalate_to_l2 writes when the context carries its identifier.
C9_SameStore ==
  /\ (PlanReturned /\ IsValidObjectId(last.id) /\ ObjectId(last.id) \in DOMAIN customers)
       => last.value = PlanDecision(customers[ObjectId(last.id)], now)
  /\ (EscalateReturned /\ IsValidObjectId(last.id)
        /\ ObjectId(last.id) \in DOMAIN customers)
       => /\ Escalated
          /\ customers[ObjectId(last.id)].escalation_log = <<last.issue_summary>>

\* C10: last write wins under concurrency. Once no escalate_to_l2 call is
\* between its read and its update, each stored customer's escalation_log is
\* the issue_summary of the update that ran last on it, its other fields and
\* every record no call updated are as seeded, and a call that returns its
\* summary returns its own issue_summary in it.
C10_LastWriteWins ==
  (\A r \in Req : pc[r] # "esc_update")
    => /\ DOMAIN customers_collection = DOMAIN seed
       /\ \A i \in DOMAIN customers_collection :
            IF i \in DOMAIN lastWrite
              THEN customers_collection[i] =
                     [seed[i] EXCEPT !.escalation_log = <<lastWrite[i]>>]
              ELSE customers_collection[i] = seed[i]
       /\ Escalated => last.value.Issue = last.issue_summary

\* C10 witness: a call finished whose update overwrote a log that another
\* call had written after this call's read, with no call left in flight
C10_Witness ==
  /\ \A r \in Req : pc[r] # "esc_update"
  /\ Escalated /\ last.raced
  /\ customers_collection[ObjectId(last.id)].escalation_log = <<last.issue_summary>>
  /\ customers_collection[Hex24(2)] = seed[Hex24(2)]

====
